---- MODULE Spec2Model ----
(***************************************************************************)
(* Model of checks.d/packageCanBeDownloaded.py: the Datadog custom check   *)
(* PackageCanBeDownloaded and the helper is_exist.                         *)
(*                                                                         *)
(* Strings whose characters the code inspects (version texts) are          *)
(* sequences of one-character strings; Str turns them into the text that   *)
(* an f-string interpolates.  An optional value (Python None or a value)   *)
(* is a sequence of length 0 or 1.                                         *)
(***************************************************************************)
EXTENDS Integers, Sequences, FiniteSets, TLC

\* ------------------------------------------------------------------ bounds
\* Longest list of <version> entries of an enumerated metadata document.
MaxVersions == 2
\* Number of check() invocations followed on one check instance.
MaxRuns == 2

\* ------------------------------------------------------- character strings
Digits == {"0", "1", "2", "3", "4", "5", "6", "7", "8", "9"}

DigitVal(c) ==
    CASE c = "0" -> 0 [] c = "1" -> 1 [] c = "2" -> 2 [] c = "3" -> 3
      [] c = "4" -> 4 [] c = "5" -> 5 [] c = "6" -> 6 [] c = "7" -> 7
      [] c = "8" -> 8 [] c = "9" -> 9

RECURSIVE Str(_)
\* The text of a character sequence, as interpolated by an f-string.
Str(cs) == IF cs = <<>> THEN "" ELSE cs[1] \o Str(Tail(cs))

RECURSIVE count(_, _)
\* str.count(ch) for a one-character ch.
count(s, ch) ==
    IF s = <<>> THEN 0
    ELSE (IF s[1] = ch THEN 1 ELSE 0) + count(Tail(s), ch)

RECURSIVE split(_, _)
\* str.split(ch): the pieces between the separators (count + 1 pieces).
split(s, ch) ==
    IF s = <<>> THEN << <<>> >>
    ELSE LET rest == split(Tail(s), ch)
         IN  IF s[1] = ch THEN << <<>> >> \o rest
             ELSE << <<s[1]>> \o rest[1] >> \o Tail(rest)

\* str.isdigit(): non-empty and every character a digit.
isdigit(s) == s # <<>> /\ \A i \in 1..Len(s) : s[i] \in Digits

\* Whether int(s) succeeds, for texts made of digits, letters, signs and
\* dots: an optional sign followed by digits.
IntParses(s) ==
    \/ isdigit(s)
    \/ /\ s # <<>>
       /\ s[1] \in {"+", "-"}
       /\ isdigit(Tail(s))

RECURSIVE DecimalValue(_, _)
DecimalValue(s, acc) ==
    IF s = <<>> THEN acc ELSE DecimalValue(Tail(s), 10 * acc + DigitVal(s[1]))

\* int(s) where IntParses(s).
int(s) ==
    IF s[1] = "-" THEN 0 - DecimalValue(Tail(s), 0)
    ELSE IF s[1] = "+" THEN DecimalValue(Tail(s), 0)
    ELSE DecimalValue(s, 0)

RECURSIVE ListLess(_, _)
\* Python's a < b on lists of integers: lexicographic, a proper prefix is less.
ListLess(a, b) ==
    IF b = <<>> THEN FALSE
    ELSE IF a = <<>> THEN TRUE
    ELSE IF a[1] # b[1] THEN a[1] < b[1]
    ELSE ListLess(Tail(a), Tail(b))

\* ------------------------------------------------------------- exceptions
NoError == "none"
AttributeError == "AttributeError"
IndexError == "IndexError"
ValueError == "ValueError"
URLError == "URLError"
ParseError == "ParseError"

\* ------------------------------------------------------ metadata documents
V2_401 == <<"2", ".", "4", "0", "1">>
V2_402 == <<"2", ".", "4", "0", "2">>
V2_390 == <<"2", ".", "3", "9", "0">>
V2_390_1 == <<"2", ".", "3", "9", "0", ".", "1">>
V2_389_3 == <<"2", ".", "3", "8", "9", ".", "3">>
V2_390_rc == <<"2", ".", "3", "9", "0", ".", "r", "c">>
V2_9_1 == <<"2", ".", "9", ".", "1">>
V2_10_1 == <<"2", ".", "1", "0", ".", "1">>
Va_1_2 == <<"a", ".", "1", ".", "2">>
V2_390_1_1 == <<"2", ".", "3", "9", "0", ".", "1", ".", "1">>

\* Texts a <version> entry may hold.
VersionPool ==
    {V2_390, V2_390_1, V2_389_3, V2_390_rc, V2_9_1, V2_10_1, Va_1_2,
     V2_390_1_1}

\* Texts of <latest>; <<>> is a document without versioning/latest.
LatestPool == {<<V2_401>>, <<V2_402>>, <<>>}

RECURSIVE SeqsUpTo(_, _)
SeqsUpTo(S, n) ==
    IF n = 0 THEN {<<>>}
    ELSE LET shorter == SeqsUpTo(S, n - 1)
         IN  shorter \cup {Append(s, x) : s \in shorter, x \in S}

\* A parsed document (the root Element): whether the root has child
\* elements, the text of versioning/latest when that element exists, and the
\* texts of versioning/versions/version in document order.
Doc(latest, versions) ==
    [children |-> TRUE, latest |-> latest, versions |-> versions]

\* A well-formed document whose root element has no children.
ChildlessDoc == [children |-> FALSE, latest |-> <<>>, versions |-> <<>>]

\* The document of the specification's example.
ExampleDoc == Doc(<<V2_401>>, <<V2_401, V2_390_1, V2_390, V2_389_3>>)

AllDocs ==
    {Doc(l, vs) : l \in LatestPool, vs \in SeqsUpTo(VersionPool, MaxVersions)}
        \cup {ChildlessDoc, ExampleDoc}

\* ------------------------------------------------------------- build_tree
\* What urlopen(metadataUrl) followed by ET.parse can do when `doc` is the
\* document being served: hand back its root, raise URLError (which
\* build_tree catches), or raise something else (a body that is not XML).
FetchOutcomes(doc) ==
    {[kind |-> "ok", doc |-> <<doc>>],
     [kind |-> URLError, doc |-> <<>>],
     [kind |-> ParseError, doc |-> <<>>]}

BuildTreeWarning == "Error when building tree from metadata url: "

\* build_tree: the root on success; on URLError a warning and an implicit
\* None; any other exception propagates.
build_tree(f) ==
    IF f.kind = "ok"
    THEN [ret |-> f.doc, exc |-> NoError, warned |-> <<>>]
    ELSE IF f.kind = URLError
    THEN [ret |-> <<>>, exc |-> NoError, warned |-> << <<BuildTreeWarning, f.kind>> >>]
    ELSE [ret |-> <<>>, exc |-> f.kind, warned |-> <<>>]

\* `not self.root`: None, or an Element without child elements.
RootIsFalsy(r) == r = <<>> \/ ~r[1].children

\* A lookup that fetches the document whether or not one is cached.
EnsureRoot_always_fetch(r, f) ==
    LET b == build_tree(f)
    IN  [root |-> IF b.exc = NoError THEN b.ret ELSE r,
         exc |-> b.exc, warned |-> b.warned, fetched |-> TRUE]

\* The shared opening of both lookups: `if not self.root: self.root =
\* self.build_tree()`.  fetched tells whether the metadata GET was issued.
EnsureRoot(r, f) ==
    IF RootIsFalsy(r)
    THEN LET b == build_tree(f)
         IN  [root |-> IF b.exc = NoError THEN b.ret ELSE r,
              exc |-> b.exc, warned |-> b.warned, fetched |-> TRUE]
    ELSE [root |-> r, exc |-> NoError, warned |-> <<>>, fetched |-> FALSE]

\* ---------------------------------------------- get_latest_weekly_version
\* self.root.find('versioning/latest').text, after EnsureRoot.  ret is the
\* returned text (length 1) or empty when the call raised exc.
get_latest_weekly_version(r, f) ==
    LET e == EnsureRoot(r, f)
        base == [root |-> e.root, warned |-> e.warned, fetched |-> e.fetched,
                 read |-> e.root]
    IN  IF e.exc # NoError
        THEN [base EXCEPT !.read = <<>>] @@ [ret |-> <<>>, exc |-> e.exc]
        ELSE IF e.root = <<>> \/ e.root[1].latest = <<>>
        THEN base @@ [ret |-> <<>>, exc |-> AttributeError]
        ELSE base @@ [ret |-> e.root[1].latest, exc |-> NoError]

\* ---------------------------------------------- get_latest_stable_version
\* A filter that lets longer dotted texts through.
StableFilter_at_least(text) == count(text, ".") >= 2

\* The filter `version.text.count('.') == 2`.
StableFilter(text) == count(text, ".") = 2

stable_versions(versions) == SelectSeq(versions, StableFilter)

\* Whether as_version(ele) raises ValueError: int(major) or int(minor) does
\* (int(patch) is only evaluated when patch.isdigit()).
as_version_raises(ele) ==
    LET parts == split(ele, ".")
    IN  ~IntParses(parts[1]) \/ ~IntParses(parts[2])

\* The sort key of a filtered entry whose key computation does not raise.
as_version(ele) ==
    LET parts == split(ele, ".")
    IN  IF ~isdigit(parts[3])
        THEN <<int(parts[1]), int(parts[2])>>
        ELSE <<int(parts[1]), int(parts[2]), int(parts[3])>>

RECURSIVE InsertDesc_ascending(_, _)
\* The step of an ascending sort (reverse=True left out).
InsertDesc_ascending(sorted, x) ==
    IF sorted = <<>> THEN <<x>>
    ELSE IF ListLess(as_version(x), as_version(sorted[1]))
    THEN <<x>> \o sorted
    ELSE <<sorted[1]>> \o InsertDesc_ascending(Tail(sorted), x)

RECURSIVE InsertDesc(_, _)
\* Insert x behind every element whose key is not below x's: the step of a
\* stable descending sort.
InsertDesc(sorted, x) ==
    IF sorted = <<>> THEN <<x>>
    ELSE IF ListLess(as_version(sorted[1]), as_version(x))
    THEN <<x>> \o sorted
    ELSE <<sorted[1]>> \o InsertDesc(Tail(sorted), x)

RECURSIVE SortDesc(_, _)
\* list.sort(key=as_version, reverse=True): descending by key, entries of
\* equal key in their original order.
SortDesc(todo, sorted) ==
    IF todo = <<>> THEN sorted
    ELSE SortDesc(Tail(todo), InsertDesc(sorted, todo[1]))

\* candidates is the local list stable_versions once line 63 has built it.
get_latest_stable_version(r, f) ==
    LET e == EnsureRoot(r, f)
        base == [root |-> e.root, warned |-> e.warned, fetched |-> e.fetched,
                 read |-> e.root, candidates |-> <<>>]
    IN  IF e.exc # NoError
        THEN [base EXCEPT !.read = <<>>] @@ [ret |-> <<>>, exc |-> e.exc]
        ELSE IF e.root = <<>>
        THEN base @@ [ret |-> <<>>, exc |-> AttributeError]
        ELSE LET sv == stable_versions(e.root[1].versions)
                 found == [base EXCEPT !.candidates = sv]
             IN  IF \E i \in 1..Len(sv) : as_version_raises(sv[i])
                 THEN found @@ [ret |-> <<>>, exc |-> ValueError]
                 ELSE IF sv = <<>>
                 THEN found @@ [ret |-> <<>>, exc |-> IndexError]
                 ELSE found @@ [ret |-> <<SortDesc(sv, <<>>)[1]>>,
                                exc |-> NoError]

\* -------------------------------------------------------- create_endpoints
DefaultHost == "get.jenkins.io"

Hosts == {DefaultHost, "mirror.example.org"}

\* Lines 80-84: the entries of the rolling channel.
RollingEndpoints(h, w) ==
    [debian |-> "https://" \o h \o "/debian/jenkins_" \o w \o "_all.deb",
     redhat |-> "https://" \o h \o "/redhat/jenkins-" \o w \o "-1.1.noarch.rpm",
     opensuse |-> "https://" \o h \o "/opensuse/jenkins-" \o w
                    \o "-1.2.noarch.rpm",
     windows |-> "https://" \o h \o "/windows/" \o w \o "/jenkins.msi",
     war |-> "https://" \o h \o "/war/" \o w \o "/jenkins.war"]

\* Lines 85-89: the entries of the stable channel.
StableEndpoints(h, s) ==
    ("debian-stable" :> "https://" \o h \o "/debian-stable/jenkins_" \o s
        \o "_all.deb")
    @@ ("redhat-stable" :> "https://" \o h \o "/redhat-stable/jenkins-" \o s
        \o "-1.1.noarch.rpm")
    @@ ("windows-stable" :> "https://" \o h \o "/windows-stable/" \o s
        \o "/jenkins.msi")
    @@ ("opensuse-stable" :> "https://" \o h \o "/opensuse-stable/jenkins-"
        \o s \o "-1.2.noarch.rpm")
    @@ ("war-stable" :> "https://" \o h \o "/war-stable/" \o s
        \o "/jenkins.war")

\* A dictionary that lacks the stable channel.
EndpointTable_rolling_only(hostname, weekly, stable) ==
    RollingEndpoints(hostname, Str(weekly))

\* A dictionary whose stable entries are built from the rolling version.
EndpointTable_one_version(hostname, weekly, stable) ==
    RollingEndpoints(hostname, Str(weekly))
        @@ StableEndpoints(hostname, Str(weekly))

\* The endpoints dictionary literal, in terms of the interpolated texts.
EndpointTable(hostname, weekly, stable) ==
    RollingEndpoints(hostname, Str(weekly))
        @@ StableEndpoints(hostname, Str(stable))

\* ----------------------------------------------------------------- is_exist
\* What urlopen(url) can do: return a response (HTTPErrorProcessor hands back
\* 2xx responses only), raise HTTPError with the status and reason of the
\* reply, or raise a URLError that is not an HTTPError (DNS failure,
\* connection refused).
ResponseCodes == {200, 204, 206}

ErrorCodes == {403, 404, 500}

Reason(code) ==
    CASE code = 403 -> "Forbidden"
      [] code = 404 -> "Not Found"
      [] code = 500 -> "Internal Server Error"
      [] OTHER -> ""

HttpOutcomes ==
    {[kind |-> "response", code |-> c] : c \in ResponseCodes}
        \cup {[kind |-> "HTTPError", code |-> c] : c \in ErrorCodes}
        \cup {[kind |-> URLError, code |-> 0]}

\* A prober that counts only a 200 reply as available.
is_exist_strict(distribution, url, http) ==
    IF http.kind = "response"
    THEN [ret |-> IF http.code = 200 THEN <<1>> ELSE <<0>>, exc |-> NoError,
          printed |-> IF http.code # 200
                      THEN << <<"return code should be 200 but is ",
                                ToString(http.code)>> >>
                      ELSE <<>>]
    ELSE [ret |-> <<0>>, exc |-> NoError, printed |-> <<>>]

\* is_exist: ret is the returned value (length 1) or empty when the call
\* raised exc; printed holds the lines written by print, each as the pieces
\* of its f-string.
is_exist(distribution, url, http) ==
    IF http.kind = "response"
    THEN [ret |-> <<1>>, exc |-> NoError,
          printed |-> IF http.code # 200
                      THEN << <<"return code should be 200 but is ",
                                ToString(http.code)>> >>
                      ELSE <<>>]
    ELSE IF http.kind = "HTTPError"
    THEN [ret |-> <<0>>, exc |-> NoError,
          printed |-> IF http.code = 404
                      THEN << <<distribution, " package not found on ", url>> >>
                      ELSE << <<"Something went wrong with url ", url, " for ",
                                distribution, " package: ", "HTTP Error ",
                                ToString(http.code), ": ",
                                Reason(http.code)>> >>]
    ELSE [ret |-> <<>>, exc |-> http.kind, printed |-> <<>>]

\* ------------------------------------------------------------------- state
MetadataUrl ==
    "https://repo.jenkins-ci.org/releases/org/jenkins-ci/main/jenkins-war/maven-metadata.xml"

Metric == "jenkins.package.available"

\* The keys of the endpoints dictionary.
PackageIds ==
    {"debian", "redhat", "opensuse", "windows", "war", "debian-stable",
     "redhat-stable", "windows-stable", "opensuse-stable", "war-stable"}

\* Values of instance['package'] a configuration may hold.
Packages == PackageIds \cup {"debian-lts", "rpm"}

\* Documents the metadata URL serves over the life of a check instance.
DocNewer == Doc(<<V2_402>>, <<V2_389_3, V2_9_1>>)
DocNoStable == Doc(<<V2_401>>, <<V2_401, V2_390>>)
DocBadMajor == Doc(<<V2_401>>, <<Va_1_2, V2_390_1>>)
DocNoLatest == Doc(<<>>, <<V2_390_1>>)

ServedDocs ==
    {ExampleDoc, DocNewer, DocNoStable, DocBadMajor, DocNoLatest, ChildlessDoc}

VARIABLES
    published,       \* the document the metadata URL serves now
    root,            \* self.root: <<>> for None, else <<document>>
    pc,              \* the place of the running call, "idle" between calls
    caller,          \* who called create_endpoints: "check" or "api"
    run,             \* calls started on this instance
    package,         \* instance['package'] of the running check
    hostname,        \* the hostname argument of create_endpoints
    weekly_version,  \* create_endpoints' local, <<>> until assigned
    stable_version,  \* create_endpoints' local, <<>> until assigned
    endpoints,       \* the dictionary create_endpoints returned, <<>> until then
    netOps,          \* network operations of the running call, in order
    warnings,        \* self.warning lines of the running call
    printed,         \* lines printed by is_exist in the running call
    gauges,          \* self.gauge samples of the running call
    outcome,         \* "running", "returned" or the exception that ended it
    probe,           \* the reply to the probe GET and what is_exist returned
    weeklyRead,      \* the document the rolling lookup read, <<>> if none
    stableRead,      \* the document the stable lookup read, <<>> if none
    candidates,      \* the stable lookup's local list stable_versions
    republished      \* whether the served document changed since the call began

vars ==
    <<published, root, pc, caller, run, package, hostname, weekly_version,
      stable_version, endpoints, netOps, warnings, printed, gauges, outcome,
      probe, weeklyRead, stableRead, candidates, republished>>

NoProbe == [http |-> <<>>, ret |-> <<>>]

InitCall ==
    /\ root = <<>>
    /\ pc = "idle"
    /\ caller = "check"
    /\ run = 0
    /\ package = ""
    /\ hostname = DefaultHost
    /\ weekly_version = <<>>
    /\ stable_version = <<>>
    /\ endpoints = <<>>
    /\ netOps = <<>>
    /\ warnings = <<>>
    /\ printed = <<>>
    /\ gauges = <<>>
    /\ outcome = "returned"
    /\ probe = NoProbe
    /\ weeklyRead = <<>>
    /\ stableRead = <<>>
    /\ candidates = <<>>
    /\ republished = FALSE

\* A freshly constructed check instance (class attribute root = None).
Init == published \in ServedDocs /\ InitCall

\* The locals and the observations of a call that starts.
StartCall ==
    /\ run' = run + 1
    /\ weekly_version' = <<>>
    /\ stable_version' = <<>>
    /\ endpoints' = <<>>
    /\ netOps' = <<>>
    /\ warnings' = <<>>
    /\ printed' = <<>>
    /\ gauges' = <<>>
    /\ outcome' = "running"
    /\ probe' = NoProbe
    /\ weeklyRead' = <<>>
    /\ stableRead' = <<>>
    /\ candidates' = <<>>
    /\ republished' = FALSE
    /\ pc' = "weekly"
    /\ UNCHANGED <<published, root>>

\* The agent calls check(instance): control enters create_endpoints().
Check(p) ==
    /\ pc = "idle"
    /\ run < MaxRuns
    /\ package' = p
    /\ hostname' = DefaultHost
    /\ caller' = "check"
    /\ StartCall

MetadataGet == [op |-> "metadata", url |-> MetadataUrl]

\* A lookup's effect on the instance and on what the call has been seen to do.
LookupEffects(r) ==
    /\ root' = r.root
    /\ netOps' = IF r.fetched THEN Append(netOps, MetadataGet) ELSE netOps
    /\ warnings' = warnings \o r.warned
    /\ outcome' = IF r.exc = NoError THEN outcome ELSE r.exc

\* Line 76: weekly_version = self.get_latest_weekly_version().
GetLatestWeeklyVersion ==
    /\ pc = "weekly"
    /\ \E f \in FetchOutcomes(published) :
         LET r == get_latest_weekly_version(root, f)
         IN  /\ LookupEffects(r)
             /\ weekly_version' = r.ret
             /\ weeklyRead' = r.read
             /\ pc' = IF r.exc = NoError THEN "stable" ELSE "idle"
    /\ UNCHANGED <<published, caller, run, package, hostname, stable_version,
                   endpoints, printed, gauges, probe, stableRead, candidates,
                   republished>>

\* Line 77: stable_version = self.get_latest_stable_version().
GetLatestStableVersion ==
    /\ pc = "stable"
    /\ \E f \in FetchOutcomes(published) :
         LET r == get_latest_stable_version(root, f)
         IN  /\ LookupEffects(r)
             /\ stable_version' = r.ret
             /\ stableRead' = r.read
             /\ candidates' = r.candidates
             /\ pc' = IF r.exc = NoError THEN "table" ELSE "idle"
    /\ UNCHANGED <<published, caller, run, package, hostname, weekly_version,
                   endpoints, printed, gauges, probe, weeklyRead, republished>>

PackageAvailable(p) == <<"PackageAvailable: ", p>>

NotSupported(p) == <<"PackageCanDownload: Package ", p, " is not supported">>

\* Lines 79-91 of create_endpoints, and for check the lines 98-106 up to the
\* call of is_exist: the dictionary, the first warning, the tags and the
\* membership test.
CreateEndpoints ==
    /\ pc = "table"
    /\ LET table == EndpointTable(hostname, weekly_version[1],
                                  stable_version[1])
       IN  /\ endpoints' = <<table>>
           /\ IF caller = "check"
              THEN /\ warnings' =
                        IF package \in DOMAIN table
                        THEN Append(warnings, PackageAvailable(package))
                        ELSE warnings \o <<PackageAvailable(package),
                                           NotSupported(package)>>
                   /\ pc' = IF package \in DOMAIN table THEN "probe" ELSE "idle"
                   /\ outcome' =
                        IF package \in DOMAIN table THEN outcome ELSE "returned"
              ELSE /\ warnings' = warnings
                   /\ pc' = "idle"
                   /\ outcome' = "returned"
    /\ UNCHANGED <<published, root, caller, run, package, hostname,
                   weekly_version, stable_version, netOps, printed, gauges,
                   probe, weeklyRead, stableRead, candidates, republished>>

\* Line 104: self.gauge(metric, is_exist(package, endpoints[package]), tags).
Probe ==
    /\ pc = "probe"
    /\ \E http \in HttpOutcomes :
         LET url == endpoints[1][package]
             r == is_exist(package, url, http)
         IN  /\ netOps' = Append(netOps, [op |-> "probe", url |-> url])
             /\ printed' = printed \o r.printed
             /\ probe' = [http |-> <<http>>, ret |-> r.ret]
             /\ gauges' =
                  IF r.exc = NoError
                  THEN Append(gauges, [metric |-> Metric, value |-> r.ret[1],
                                       tags |-> <<"package:" \o package>>])
                  ELSE gauges
             /\ outcome' = IF r.exc = NoError THEN "returned" ELSE r.exc
    /\ pc' = "idle"
    /\ UNCHANGED <<published, root, caller, run, package, hostname,
                   weekly_version, stable_version, endpoints, warnings,
                   weeklyRead, stableRead, candidates, republished>>

\* The repository publishes another metadata document.
Publish ==
    /\ \E d \in ServedDocs \ {published} : published' = d
    /\ republished' = TRUE
    /\ UNCHANGED <<root, pc, caller, run, package, hostname, weekly_version,
                   stable_version, endpoints, netOps, warnings, printed,
                   gauges, outcome, probe, weeklyRead, stableRead, candidates>>

Next ==
    \/ \E p \in Packages : Check(p)
    \/ GetLatestWeeklyVersion
    \/ GetLatestStableVersion
    \/ CreateEndpoints
    \/ Probe
    \/ Publish

Spec == Init /\ [][Next]_vars

\* ------------------------------------------------- create_endpoints, alone
\* A caller other than check (the module's __main__ block, a test) calls
\* create_endpoints(hostname) on an instance; the metadata URL serves any
\* document of AllDocs.
InitApi == published \in AllDocs /\ InitCall

CallCreateEndpoints(h) ==
    /\ pc = "idle"
    /\ run < MaxRuns
    /\ hostname' = h
    /\ caller' = "api"
    /\ package' = package
    /\ StartCall

NextApi ==
    \/ \E h \in Hosts : CallCreateEndpoints(h)
    \/ GetLatestWeeklyVersion
    \/ GetLatestStableVersion
    \/ CreateEndpoints

SpecApi == InitApi /\ [][NextApi]_vars

\* ================================================================== claims
\* Error names of the documented taxonomy that the source does not define.
FetchError == "FetchError"
EmptyVersionSetError == "EmptyVersionSetError"

\* Number of network operations of kind op in the running call.
CountOp(op) == Cardinality({i \in 1..Len(netOps) : netOps[i].op = op})

\* Whether a printed or logged line holds the piece t.
HasPiece(line, t) == \E i \in 1..Len(line) : line[i] = t

\* A check invocation whose version resolution succeeded and that has passed
\* the membership test.
Resolved == caller = "check" /\ endpoints # <<>>

\* C1: in a check invocation whose version resolution succeeded, a gauge
\* sample is emitted if and only if the package is one of the ten identifiers
\* and the probe returned; it is then the single sample of
\* jenkins.package.available with the probe's result (0 or 1) and the one tag
\* package:<identifier>.  One of the ten identifiers is probed and draws no
\* 'not supported' warning; for any other identifier there is no sample, no
\* probe GET, a 'not supported' warning, and check returns normally.
C1_GaugeIffSupported ==
    Resolved =>
        /\ (gauges # <<>>) <=> (package \in PackageIds /\ probe.ret # <<>>)
        /\ gauges # <<>> =>
             /\ gauges = << [metric |-> "jenkins.package.available",
                             value |-> probe.ret[1],
                             tags |-> <<"package:" \o package>>] >>
             /\ probe.ret[1] \in {0, 1}
        /\ package \in PackageIds =>
             /\ pc = "probe" \/ CountOp("probe") = 1
             /\ \A i \in 1..Len(warnings) :
                    warnings[i] = <<"PackageAvailable: ", package>>
        /\ package \notin PackageIds =>
             /\ gauges = <<>>
             /\ CountOp("probe") = 0
             /\ \E i \in 1..Len(warnings) :
                    warnings[i] = <<"PackageCanDownload: Package ", package,
                                    " is not supported">>
             /\ outcome = "returned"
             /\ pc = "idle"

C1_Witness ==
    /\ Resolved
    /\ package = "war-stable"
    /\ Len(gauges) = 1
    /\ gauges[1].value = 0

\* C2: is_exist issues one GET and classifies its reply: a response returns 1,
\* silently for 200 and with a line naming the code otherwise; HTTPError 404
\* returns 0 with a 'package not found' line; any other HTTPError returns 0
\* with a line holding the error's status.
C2_IsExistClassifies ==
    probe.http # <<>> =>
        LET h == probe.http[1]
        IN  /\ CountOp("probe") = 1
            /\ h.kind = "response" =>
                 /\ probe.ret = <<1>>
                 /\ IF h.code = 200 THEN printed = <<>>
                    ELSE /\ Len(printed) = 1
                         /\ HasPiece(printed[1], ToString(h.code))
            /\ (h.kind = "HTTPError" /\ h.code = 404) =>
                 /\ probe.ret = <<0>>
                 /\ Len(printed) = 1
                 /\ HasPiece(printed[1], " package not found on ")
                 /\ HasPiece(printed[1], endpoints[1][package])
            /\ (h.kind = "HTTPError" /\ h.code # 404) =>
                 /\ probe.ret = <<0>>
                 /\ Len(printed) = 1
                 /\ printed[1][1] = "Something went wrong with url "
                 /\ HasPiece(printed[1], ToString(h.code))

C2_Witness ==
    /\ probe.http = <<[kind |-> "response", code |-> 204]>>
    /\ probe.ret = <<1>>
    /\ printed # <<>>

\* C3: whatever the probe's GET does (a response, an HTTPError, a transport
\* failure that is no HTTPError), is_exist returns 0 or 1 and the check
\* invocation completes and emits its sample.
C3_ProbeNeverAborts ==
    probe.http # <<>> =>
        /\ probe.ret \in {<<0>>, <<1>>}
        /\ Len(gauges) = 1
        /\ outcome = "returned"

\* The listed texts of document d, as a set.
Listed(d) == {d.versions[i] : i \in 1..Len(d.versions)}

\* The listed texts with exactly two '.' separators.
TwoDotEntries(d) == {v \in Listed(d) : count(v, ".") = 2}

\* Whether a two-separator text has numeric major and minor components.
NumericMajorMinor(v) == isdigit(split(v, ".")[1]) /\ isdigit(split(v, ".")[2])

\* The claimed comparison key: [major, minor, patch] as integers, the patch
\* dropped when it is not numeric.
ClaimedKey(v) ==
    LET c == split(v, ".")
        two == <<int(c[1]), int(c[2])>>
    IN  IF isdigit(c[3]) THEN Append(two, int(c[3])) ELSE two

\* C4: the rolling lookup returns the text of versioning/latest whatever the
\* version list holds; the stable lookup, on a document whose two-separator
\* entries exist and have numeric major and minor, returns one of them whose
\* key [major, minor, patch] (patch dropped when non-numeric) no other such
\* entry exceeds.  The example document resolves to 2.401 and 2.390.1.
C4_ResolverPicksLatest ==
    /\ (weeklyRead # <<>> /\ weeklyRead[1].latest # <<>>) =>
         weekly_version = weeklyRead[1].latest
    /\ (/\ stableRead # <<>>
        /\ TwoDotEntries(stableRead[1]) # {}
        /\ \A v \in TwoDotEntries(stableRead[1]) : NumericMajorMinor(v)) =>
         /\ stable_version # <<>>
         /\ stable_version[1] \in TwoDotEntries(stableRead[1])
         /\ \A w \in TwoDotEntries(stableRead[1]) :
                ~ListLess(ClaimedKey(stable_version[1]), ClaimedKey(w))
    /\ stableRead = <<ExampleDoc>> =>
         /\ weekly_version = <<V2_401>>
         /\ stable_version = <<V2_390_1>>

C4_Witness ==
    /\ stableRead = <<Doc(<<V2_402>>, <<V2_9_1, V2_10_1>>)>>
    /\ weekly_version = <<V2_402>>
    /\ stable_version = <<V2_10_1>>

\* C5 as stated: the stable filter keeps a listed text if and only if it has
\* exactly two '.' separators and numeric major and minor (the patch numeric
\* or not); every other listed text is left out and cannot break the lookup.
C5_FilterWellFormedOnly ==
    stableRead # <<>> =>
        /\ \A v \in Listed(stableRead[1]) :
              (\E i \in 1..Len(candidates) : candidates[i] = v)
                  <=> (count(v, ".") = 2 /\ NumericMajorMinor(v))
        /\ outcome # ValueError

\* C5 as amended: the stable filter keeps a listed text if and only if it has
\* exactly two '.' separators; a text with another number of separators
\* changes neither the returned version nor the error, and the lookup raises
\* ValueError exactly when a kept text has a major or minor that int rejects.
C5_FilterTwoSeparators ==
    stableRead # <<>> =>
        LET d == stableRead[1]
            alone == get_latest_stable_version(
                         <<Doc(d.latest, candidates)>>,
                         [kind |-> "ok", doc |-> <<d>>])
        IN  /\ \A v \in Listed(d) :
                  (\E i \in 1..Len(candidates) : candidates[i] = v)
                      <=> count(v, ".") = 2
            /\ stable_version = alone.ret
            /\ alone.exc # NoError => outcome = alone.exc
            /\ (outcome = ValueError) <=>
                  \E v \in TwoDotEntries(d) :
                      \/ ~IntParses(split(v, ".")[1])
                      \/ ~IntParses(split(v, ".")[2])

C5_Witness ==
    /\ stableRead = <<Doc(<<V2_401>>, <<V2_390_1_1, Va_1_2>>)>>
    /\ candidates = <<Va_1_2>>
    /\ outcome = ValueError

\* C6: within one invocation the metadata document is fetched at most once
\* and both lookups read that one document; the network operations are the
\* metadata fetch first and then at most one probe GET, which starts only
\* after both versions are resolved.
C6_OneFetchThenProbe ==
    /\ CountOp("metadata") <= 1
    /\ CountOp("probe") <= 1
    /\ \A i \in 1..Len(netOps) :
          /\ netOps[i].op = "metadata" => i = 1
          /\ netOps[i].op = "probe" =>
               /\ i = Len(netOps)
               /\ weekly_version # <<>>
               /\ stable_version # <<>>
               /\ endpoints # <<>>
    /\ stableRead # <<>> => stableRead = weeklyRead

C6_Witness ==
    /\ Len(netOps) = 2
    /\ netOps[1].op = "metadata"
    /\ netOps[2].op = "probe"
    /\ stableRead = weeklyRead
    /\ stableRead # <<published>>
    /\ republished

\* C7: the cached document does not outlive a run: a check invocation that
\* resolves its versions started from an empty cache and fetched the metadata
\* itself, so its versions are those of the document published during that
\* invocation, not those of an earlier one.
C7_FreshCacheEachRun ==
    Resolved =>
        /\ CountOp("metadata") = 1
        /\ weeklyRead = stableRead
        /\ ~republished => weeklyRead = <<published>>

\* C8: when the metadata fetch fails with a network-level error, a warning
\* is logged, no version is extracted, no probe GET is made, no sample is
\* emitted, and the run ends with FetchError.
C8_FetchFailureIsFetchError ==
    (\E i \in 1..Len(warnings) :
        warnings[i][1] = "Error when building tree from metadata url: ") =>
        /\ outcome = FetchError
        /\ weekly_version = <<>>
        /\ stable_version = <<>>
        /\ CountOp("probe") = 0
        /\ gauges = <<>>

\* C9: when the document lists no version with exactly two '.' separators,
\* the stable lookup ends with EmptyVersionSetError, and the check invocation
\* makes no probe GET and emits no sample.
C9_EmptySetIsEmptyVersionSetError ==
    (stableRead # <<>> /\ TwoDotEntries(stableRead[1]) = {}) =>
        /\ outcome = EmptyVersionSetError
        /\ stable_version = <<>>
        /\ CountOp("probe") = 0
        /\ gauges = <<>>

Formats == {"debian", "redhat", "opensuse", "windows", "war"}

\* The URL template of a packaging format under a path prefix.
ClaimedTemplate(format, prefix, h, v) ==
    CASE format = "debian" ->
           "https://" \o h \o "/" \o prefix \o "/jenkins_" \o v \o "_all.deb"
      [] format = "redhat" ->
           "https://" \o h \o "/" \o prefix \o "/jenkins-" \o v
               \o "-1.1.noarch.rpm"
      [] format = "opensuse" ->
           "https://" \o h \o "/" \o prefix \o "/jenkins-" \o v
               \o "-1.2.noarch.rpm"
      [] format = "windows" ->
           "https://" \o h \o "/" \o prefix \o "/" \o v \o "/jenkins.msi"
      [] format = "war" ->
           "https://" \o h \o "/" \o prefix \o "/" \o v \o "/jenkins.war"

\* C10: create_endpoints returns a mapping over exactly the ten identifiers;
\* each rolling key maps to its format's template with the host and the
\* rolling version, each -stable key to the same template under the
\* <format>-stable prefix with the host and the stable version.
C10_EndpointsAreTheTemplates ==
    endpoints # <<>> =>
        LET t == endpoints[1]
            w == Str(weekly_version[1])
            s == Str(stable_version[1])
        IN  /\ DOMAIN t = {"debian", "redhat", "opensuse", "windows", "war",
                           "debian-stable", "redhat-stable", "windows-stable",
                           "opensuse-stable", "war-stable"}
            /\ \A f \in Formats :
                  /\ t[f] = ClaimedTemplate(f, f, hostname, w)
                  /\ t[f \o "-stable"] =
                        ClaimedTemplate(f, f \o "-stable", hostname, s)
            /\ (/\ hostname = "get.jenkins.io"
                /\ weekly_version = <<V2_401>>
                /\ stable_version = <<V2_390_1>>) =>
                  /\ t["war"] = "https://get.jenkins.io/war/2.401/jenkins.war"
                  /\ t["war-stable"] =
                        "https://get.jenkins.io/war-stable/2.390.1/jenkins.war"

C10_Witness ==
    /\ endpoints # <<>>
    /\ hostname = "mirror.example.org"
    /\ weekly_version = <<V2_402>>
    /\ stable_version = <<V2_390_rc>>
    /\ endpoints[1]["opensuse-stable"] =
          "https://mirror.example.org/opensuse-stable/jenkins-2.390.rc-1.2.noarch.rpm"

====
